---------------------------- MODULE Spec2Model ----------------------------
(***************************************************************************)
(* A model of the execution core of gocql: the retry dispatcher            *)
(* (Session.executeQuery, Session.ExecuteBatch), the paging iterator        *)
(* (Iter.Scan, Iter.Close, nextIter.fetch) and the event debouncer          *)
(* (eventDebouncer), the event reconciler (Session.handleNodeEvent,         *)
(* handleSchemaEvent and the handlers they call) and the lock of the        *)
(* Session defaults.  Each engine has its own specification; the variables  *)
(* of the other engines stay at their initial values.                       *)
(***************************************************************************)
EXTENDS Integers, Sequences, FiniteSets, TLC

VARIABLES
    \* ---- retry dispatcher (session.go 92-138) ----
    dpc,          \* "idle" | "loop" | "done": position of the one caller
    op,           \* "query" | "batch" | "none": which entry point is running
    numRetries,   \* qry.rt.NumRetries / batch.rt.NumRetries
    nEntries,     \* len(batch.Entries)
    count,        \* the loop counter `count`
    itr,          \* executeQuery's `itr`: NilPtr, or the Iter's err field
    err,          \* ExecuteBatch's `err`
    picks,        \* history: number of s.Node.Pick calls of this call
    attempts,     \* history: number of conn.executeQuery/executeBatch calls
    errs,         \* history: the outcome of every attempt, in order
    nilPickAt     \* history: value of picks when Pick returned nil, else 0

VARIABLES
    \* ---- paging iterator (session.go 242-313) ----
    iter,         \* the caller's Iter: [err, pos, rows, columns, next]
    handles,      \* the nextIter objects: handle id -> [pos, once, next]
    spc,          \* "idle" | "force": the consumer is outside Scan, or is
                  \* inside Scan, in iter.next.fetch()
    sdest,        \* the dest... of the Scan in progress
    ret,          \* the last return to the consumer: <<"Scan", TRUE>>,
                  \* <<"Scan", FALSE>>, <<"Close", error>>; <<>> before
    wrote,        \* what the last Scan stored in its destinations
    bg,           \* handle id -> number of `go iter.next.fetch()` goroutines
                  \* that have not yet got through once.Do
    runner,       \* handle id -> who runs the once function: "scan", "bg"
    fetchCount,   \* history: handle id -> executions of the continuation
    observed,     \* history: handle id -> the iterators fetch() returned
    pages,        \* history: the rows of every page the server returned
    delivered     \* history: the rows for which Scan returned true

VARIABLES
    \* ---- event debouncer (events.go 9-83) ----
    events,       \* e.events: the buffered frames
    timerArmed,   \* e.timer is running
    timerC,       \* a value is waiting in the channel e.timer.C
    staleTimerC,  \* the build's timers: Reset leaves a value that is already
                  \* in timer.C (Go before 1.23, or asynctimerchan=1)
    mu,           \* e.mu: "free", or its holder "debounce" | "flusher"
    fpc,          \* the flusher goroutine: "select" | "timer" | "locked" |
                  \* "returned"
    stpc,         \* the caller of stop: "idle" | "sent" | "returned"
    goCallbacks,  \* the `go e.callback(batch)` goroutines not yet running
    calls,        \* history: the batches the callback was invoked with
    prefilled,    \* history: debounce calls made before the initial state
    arrived,      \* history: number of debounce calls; frame i is the i-th
    logged,       \* history: the frames reported dropped to the logger
    expired,      \* history: the timer expired since the last debounce
    burstStart,   \* history: the first frame of the current burst: the
                  \* last one that arrived after such an expiry (or frame 1)
    burstIdle,    \* history: the debouncer was idle when that frame arrived
    handed        \* history: the batches flush gave to `go e.callback`,
                  \* in the order of the flushes

VARIABLES
    \* ---- event reconciler (events.go 108-277) ----
    DisableTopologyEvents,    \* s.cfg.Events.DisableTopologyEvents
    DisableNodeStatusEvents,  \* s.cfg.Events.DisableNodeStatusEvents
    ring,         \* s.ring: the IPs getHostByIP finds
    filtered,     \* the IPs of the hosts for which s.cfg.filterHost is true
    hostState,    \* IP -> the state of that HostInfo: "UP" | "DOWN"
    pool,         \* s.pool: the host IDs it holds
    refreshPending, \* debounceRingRefresh was called, the refresh is to come
    schemaCache,  \* s.schemaDescriber: the keyspaces with cached metadata
    rpc,          \* the callback goroutine: "new" | "refresh" | "dispatch" |
                  \* "schema" | "await" | "done"
    frames,       \* the `frames` argument of the handler that runs
    topologyEventReceived,  \* handleNodeEvent's local
    sEvents,      \* handleNodeEvent's map: IP -> change
    sTodo,        \* the keys of sEvents the range loop has not visited
    fidx,         \* handleSchemaEvent: frames handled so far
    connects,     \* number of handleNodeConnected calls made
    effects       \* history: the calls made on the ring refresher, the
                  \* hosts, the pool, the policy, the schema cache and the
                  \* control connection, in order

VARIABLES
    \* ---- Session defaults (session.go 24-84, 328-330) ----
    sess,         \* the Session fields cons, pageSize, prefetch, trace
    smu,          \* s.mu: [writer |-> process or 0, readers |-> processes]
    lpc,          \* process -> position in its call: "idle" before it,
                  \* "done" after it
    lop,          \* process -> the call it makes: [name, arg]
    qry,          \* process -> the Query its Session.Query builds
    batchRt       \* process -> the rt of the Batch its NewBatch built

dvars == <<dpc, op, numRetries, nEntries, count, itr, err, picks, attempts,
           errs, nilPickAt>>

ivars == <<iter, handles, spc, sdest, ret, wrote, bg, runner,
           fetchCount, observed, pages, delivered>>

evars == <<events, timerArmed, timerC, staleTimerC, mu, fpc, stpc,
           goCallbacks, calls, prefilled, arrived,
                   logged, expired, burstStart, burstIdle, handed>>

rvars == <<DisableTopologyEvents, DisableNodeStatusEvents, ring, filtered,
           hostState, pool, refreshPending, schemaCache, rpc, frames,
           topologyEventReceived, sEvents, sTodo, fidx, connects, effects>>

lvars == <<sess, smu, lpc, lop, qry, batchRt>>

vars == <<dpc, op, numRetries, nEntries, count, itr, err, picks, attempts,
          errs, nilPickAt,
          iter, handles, spc, sdest, ret, wrote, bg, runner,
          fetchCount, observed, pages, delivered,
          events, timerArmed, timerC, staleTimerC, mu, fpc, stpc,
          goCallbacks, calls, prefilled, arrived,
                   logged, expired, burstStart, burstIdle, handed,
          DisableTopologyEvents, DisableNodeStatusEvents, ring, filtered,
          hostState, pool, refreshPending, schemaCache, rpc, frames,
          topologyEventReceived, sEvents, sTodo, fidx, connects, effects,
          sess, smu, lpc, lop, qry, batchRt>>

----------------------------------------------------------------------------
(* Values *)

NIL == "nil"                         \* Go's nil error
NilPtr == "nil-pointer"              \* a nil *Iter
ErrUnavailable == "unavailable"
ErrTooManyStmts == "too many statements"
ErrProtocol == "protocol error"
ErrTimeout == "timeout"

\* What one execution on a connection can fail with.
ExecErrors == {ErrProtocol, ErrTimeout}

----------------------------------------------------------------------------
(* Bounds *)

MaxRetries == 3

\* The batch statement limit of ExecuteBatch.
BatchStmtLimit == 65536

\* Retry counts tried; NumRetries is an int, so a negative one is possible.
RetryCounts == (-1)..MaxRetries

\* Batch sizes tried: around the limit, and small ones.
BatchSizes == {0, 1, BatchStmtLimit - 1, BatchStmtLimit, BatchStmtLimit + 1}

----------------------------------------------------------------------------
(* Retry dispatcher *)

\* The loop condition `count <= rt.NumRetries`.
LoopContinuesOffByOne(c, n) == c < n
LoopContinues(c, n) == c <= n

\* `len(batch.Entries) > 65536`
TooManyGE(n) == n >= BatchStmtLimit
TooMany(n) == n > BatchStmtLimit

\* Where the loop goes after an attempt that returned e: break on success.
AfterAttemptNoBreak(e) == "loop"
AfterAttempt(e) == IF e = NIL THEN "done" ELSE "loop"

\* Where the loop goes after Pick returned nil: break.
AfterNilPickContinue == "loop"
AfterNilPick == "done"

DInit ==
    /\ dpc = "idle"
    /\ op = "none"
    /\ numRetries = 0
    /\ nEntries = 0
    /\ count = 0
    /\ itr = NilPtr
    /\ err = NIL
    /\ picks = 0
    /\ attempts = 0
    /\ errs = <<>>
    /\ nilPickAt = 0

\* Entry of Session.executeQuery: `var itr *Iter; count := 0`.
executeQueryCall(n) ==
    /\ UNCHANGED <<ivars, evars, rvars, lvars>>
    /\ dpc \in {"idle", "done"}
    /\ dpc' = "loop"
    /\ op' = "query"
    /\ numRetries' = n
    /\ nEntries' = 0
    /\ count' = 0
    /\ itr' = NilPtr
    /\ err' = NIL
    /\ picks' = 0
    /\ attempts' = 0
    /\ errs' = <<>>
    /\ nilPickAt' = 0

\* One iteration in which s.Node.Pick returns nil.
executeQueryPickNil ==
    /\ UNCHANGED <<ivars, evars, rvars, lvars>>
    /\ dpc = "loop" /\ op = "query"
    /\ LoopContinues(count, numRetries)
    /\ picks' = picks + 1
    /\ nilPickAt' = picks + 1
    /\ itr' = ErrUnavailable
    /\ dpc' = AfterNilPick
    /\ UNCHANGED <<op, numRetries, nEntries, count, err, attempts, errs>>

\* One iteration in which Pick returns a connection and conn.executeQuery
\* returns an Iter whose err is e.
executeQueryAttempt(e) ==
    /\ UNCHANGED <<ivars, evars, rvars, lvars>>
    /\ dpc = "loop" /\ op = "query"
    /\ LoopContinues(count, numRetries)
    /\ picks' = picks + 1
    /\ attempts' = attempts + 1
    /\ errs' = Append(errs, e)
    /\ itr' = e
    /\ dpc' = AfterAttempt(e)
    /\ count' = IF AfterAttempt(e) = "done" THEN count ELSE count + 1
    /\ UNCHANGED <<op, numRetries, nEntries, err, nilPickAt>>

\* The loop condition fails: `return itr`.
executeQueryReturn ==
    /\ UNCHANGED <<ivars, evars, rvars, lvars>>
    /\ dpc = "loop" /\ op = "query"
    /\ ~LoopContinues(count, numRetries)
    /\ dpc' = "done"
    /\ UNCHANGED <<op, numRetries, nEntries, count, itr, err, picks, attempts,
                   errs, nilPickAt>>

\* Entry of Session.ExecuteBatch, with the size check.
ExecuteBatchCall(n, len) ==
    /\ UNCHANGED <<ivars, evars, rvars, lvars>>
    /\ dpc \in {"idle", "done"}
    /\ op' = "batch"
    /\ numRetries' = n
    /\ nEntries' = len
    /\ count' = 0
    /\ itr' = NilPtr
    /\ picks' = 0
    /\ attempts' = 0
    /\ errs' = <<>>
    /\ nilPickAt' = 0
    /\ IF TooMany(len)
         THEN dpc' = "done" /\ err' = ErrTooManyStmts
         ELSE dpc' = "loop" /\ err' = NIL

ExecuteBatchPickNil ==
    /\ UNCHANGED <<ivars, evars, rvars, lvars>>
    /\ dpc = "loop" /\ op = "batch"
    /\ LoopContinues(count, numRetries)
    /\ picks' = picks + 1
    /\ nilPickAt' = picks + 1
    /\ err' = ErrUnavailable
    /\ dpc' = AfterNilPick
    /\ UNCHANGED <<op, numRetries, nEntries, count, itr, attempts, errs>>

ExecuteBatchAttempt(e) ==
    /\ UNCHANGED <<ivars, evars, rvars, lvars>>
    /\ dpc = "loop" /\ op = "batch"
    /\ LoopContinues(count, numRetries)
    /\ picks' = picks + 1
    /\ attempts' = attempts + 1
    /\ errs' = Append(errs, e)
    /\ err' = e
    /\ dpc' = AfterAttempt(e)
    /\ count' = IF AfterAttempt(e) = "done" THEN count ELSE count + 1
    /\ UNCHANGED <<op, numRetries, nEntries, itr, nilPickAt>>

ExecuteBatchReturn ==
    /\ UNCHANGED <<ivars, evars, rvars, lvars>>
    /\ dpc = "loop" /\ op = "batch"
    /\ ~LoopContinues(count, numRetries)
    /\ dpc' = "done"
    /\ UNCHANGED <<op, numRetries, nEntries, count, itr, err, picks, attempts,
                   errs, nilPickAt>>

----------------------------------------------------------------------------
(* Paging iterator *)

MaxPages == 2     \* pages of one result set
MaxRows == 2      \* rows of one page

ErrCountMismatch == "count mismatch"
ErrUnmarshal == "unmarshal error"

\* The column metadata of every page of the result set.
Columns == <<"k", "v">>

\* Handle ids: the handle h is the nextIter that fetches page h.
HandleIds == 2..MaxPages

\* No Iter yet (nextIter.next before the fetch).
NoIter == [err |-> "none", pos |-> 0, rows |-> <<>>, columns |-> <<>>, next |-> 0]

\* A nextIter that has not been allocated.
NoHandle == [pos |-> 0, once |-> "absent", next |-> NoIter]

\* The raw bytes of column c of row r of page p; undecodable bytes are
\* negative.
Cell(p, r, c, bad) == IF bad = <<r, c>> THEN 0 - (p * 100 + r * 10 + c)
                                       ELSE p * 100 + r * 10 + c

\* The rows of page p: n rows, the cell at `bad` undecodable (<<0, 0>>: none).
PageRows(p, n, bad) ==
    [r \in 1..n |-> [c \in 1..Len(Columns) |-> Cell(p, r, c, bad)]]

\* Unmarshal(TypeInfo, data, dest): the error, or NIL.
Unmarshal(cell) == IF cell < 0 THEN ErrUnmarshal ELSE NIL

\* The value Unmarshal stores in a destination.
Decoded(cell) == <<"value", cell>>

\* What a destination skipped by a nil slot holds.
Skipped == <<"skipped", 0>>

\* The dest arguments tried: one pointer per column, a nil in the first
\* slot, one pointer too few, one too many.
Dests == { [i \in 1..Len(Columns) |-> "ptr"],
           [i \in 1..Len(Columns) |-> IF i = 1 THEN "nilslot" ELSE "ptr"],
           [i \in 1..(Len(Columns) - 1) |-> "ptr"],
           [i \in 1..(Len(Columns) + 1) |-> "ptr"] }

\* What executeQuery can return for page p: an Iter that carries an error,
\* or an Iter with the page's rows and, when the server has more pages, a
\* new nextIter whose pos is hpos.  A pos beyond len(rows) behaves as
\* len(rows) does (Scan tests for exhaustion first), so hpos stops there.
FetchOutcomes(p) ==
    { [it |-> [err |-> e, pos |-> 0, rows |-> <<>>, columns |-> <<>>, next |-> 0],
       hpos |-> 0] : e \in {ErrProtocol, ErrUnavailable} }
    \cup
    { [it |-> [err |-> NIL, pos |-> 0, rows |-> PageRows(p, x.n, x.bad),
               columns |-> Columns, next |-> IF x.more THEN p + 1 ELSE 0],
       hpos |-> IF x.more THEN x.hpos ELSE 0] :
      x \in { y \in [n : 0..MaxRows, bad : (0..MaxRows) \X (0..Len(Columns)),
                     more : BOOLEAN, hpos : 0..MaxRows] :
                /\ y.bad[1] <= y.n
                /\ (y.bad[1] = 0) = (y.bad[2] = 0)
                /\ y.more => p < MaxPages
                /\ IF y.more THEN y.hpos <= y.n ELSE y.hpos = 0 } }

\* `if iter.err != nil`
HasErrNever(it) == FALSE
HasErr(it) == it.err # NIL

\* `if iter.pos >= len(iter.rows)`
Exhausted(it) == it.pos >= Len(it.rows)

\* `*iter = *iter.next.fetch()`
SwapInKeepPos(it, fetched) == [fetched EXCEPT !.pos = it.pos]
SwapIn(it, fetched) == fetched

\* `iter.pos++`
AdvanceTwice(it) == [it EXCEPT !.pos = @ + 2]
Advance(it) == [it EXCEPT !.pos = @ + 1]

\* `iter.err = err; return false`
FailAndSkip(it, e) == [it EXCEPT !.err = e, !.pos = @ + 1]
Fail(it, e) == [it EXCEPT !.err = e]

\* once.Do: the caller runs the function iff nobody has taken it.
OnceFreeRacy(o) == o \in {"new", "running"}
OnceFree(o) == o = "new"

\* `if iter.next != nil && iter.pos == iter.next.pos`
PrefetchDueBelow(it, hs) == it.next # 0 /\ it.pos < hs[it.next].pos
PrefetchDue(it, hs) == it.next # 0 /\ it.pos = hs[it.next].pos

\* The first column whose decoding fails for dest d, 0 if none (a nil
\* destination skips its column).
FirstBadColumn(row, d) ==
    LET badCols == { i \in 1..Len(row) : d[i] # "nilslot" /\ Unmarshal(row[i]) # NIL }
    IN IF badCols = {} THEN 0
       ELSE CHOOSE i \in badCols : \A j \in badCols : i <= j

\* What Scan has stored in dest when it has decoded the first k columns.
Written(row, d, k) ==
    [i \in 1..k |-> IF d[i] = "nilslot" THEN Skipped ELSE Decoded(row[i])]

\* Iter.Scan on the iterator it with the handles hs, up to its return or
\* to the call of iter.next.fetch():
\*   force: Scan is at iter.next.fetch();  ret: the return value;
\*   spawn: the handle of `go iter.next.fetch()`, 0 if none;
\*   out: the row consumed;  wrote: what was stored in dest.
ScanStep(it, hs, d) ==
    IF HasErr(it)
      THEN [it |-> it, force |-> FALSE, ret |-> FALSE, spawn |-> 0,
            out |-> <<>>, wrote |-> <<>>]
    ELSE IF Exhausted(it)
      THEN [it |-> it, force |-> it.next # 0, ret |-> FALSE, spawn |-> 0,
            out |-> <<>>, wrote |-> <<>>]
    ELSE
      LET spawn == IF PrefetchDue(it, hs) THEN it.next ELSE 0
          row == it.rows[it.pos + 1]
          k == FirstBadColumn(row, d)
      IN IF Len(d) # Len(it.columns)
           THEN [it |-> Fail(it, ErrCountMismatch), force |-> FALSE,
                 ret |-> FALSE, spawn |-> spawn, out |-> <<>>, wrote |-> <<>>]
         ELSE IF k # 0
           THEN [it |-> Fail(it, Unmarshal(row[k])), force |-> FALSE,
                 ret |-> FALSE, spawn |-> spawn, out |-> <<>>,
                 wrote |-> Written(row, d, k - 1)]
         ELSE [it |-> Advance(it), force |-> FALSE, ret |-> TRUE,
               spawn |-> spawn, out |-> <<row>>,
               wrote |-> Written(row, d, Len(row))]

\* The effect of a ScanStep outcome on the state.
ApplyScan(r, d) ==
    /\ iter' = r.it
    /\ delivered' = delivered \o r.out
    /\ bg' = IF r.spawn # 0 THEN [bg EXCEPT ![r.spawn] = @ + 1] ELSE bg
    /\ IF r.force
         THEN spc' = "force" /\ sdest' = d /\ UNCHANGED <<ret, wrote>>
         ELSE /\ spc' = "idle" /\ sdest' = <<>>
              /\ ret' = <<"Scan", r.ret>> /\ wrote' = r.wrote

\* The handles after the Iter of outcome o was built.
WithHandle(hs, o) ==
    IF o.it.next # 0
      THEN [hs EXCEPT ![o.it.next] = [pos |-> o.hpos, once |-> "new", next |-> NoIter]]
      ELSE hs

IInit0 ==
    /\ iter = NoIter
    /\ handles = [h \in HandleIds |-> NoHandle]
    /\ spc = "idle"
    /\ sdest = <<>>
    /\ ret = <<>>
    /\ wrote = <<>>
    /\ bg = [h \in HandleIds |-> 0]
    /\ runner = [h \in HandleIds |-> "none"]
    /\ fetchCount = [h \in HandleIds |-> 0]
    /\ observed = [h \in HandleIds |-> {}]
    /\ pages = <<>>
    /\ delivered = <<>>

\* Query.Iter(): the Iter that executeQuery returned for the first page.
IInit ==
    \E o \in FetchOutcomes(1) :
        /\ iter = o.it
        /\ handles = WithHandle([h \in HandleIds |-> NoHandle], o)
        /\ pages = IF o.it.err = NIL THEN <<o.it.rows>> ELSE <<>>
        /\ spc = "idle"
        /\ sdest = <<>>
        /\ ret = <<>>
        /\ wrote = <<>>
        /\ bg = [h \in HandleIds |-> 0]
        /\ runner = [h \in HandleIds |-> "none"]
        /\ fetchCount = [h \in HandleIds |-> 0]
        /\ observed = [h \in HandleIds |-> {}]
        /\ delivered = <<>>

\* A call of iter.Scan(d...), up to its return or to iter.next.fetch().
Scan(d) ==
    /\ spc = "idle"
    /\ ApplyScan(ScanStep(iter, handles, d), d)
    /\ UNCHANGED <<handles, runner, fetchCount, observed, pages>>
    /\ UNCHANGED <<dvars, evars, rvars, lvars>>

\* iter.Close()
Close ==
    /\ spc = "idle"
    /\ ret' = <<"Close", iter.err>>
    /\ UNCHANGED <<iter, handles, spc, sdest, wrote, bg, runner, fetchCount,
                   observed, pages, delivered>>
    /\ UNCHANGED <<dvars, evars, rvars, lvars>>

\* The Scan in fetch() enters once.Do first and starts the function.
ScanFetchBegin ==
    /\ spc = "force"
    /\ OnceFree(handles[iter.next].once)
    /\ handles' = [handles EXCEPT ![iter.next].once = "running"]
    /\ runner' = [runner EXCEPT ![iter.next] = "scan"]
    /\ fetchCount' = [fetchCount EXCEPT ![iter.next] = @ + 1]
    /\ UNCHANGED <<iter, spc, sdest, ret, wrote, bg, observed, pages,
                   delivered>>
    /\ UNCHANGED <<dvars, evars, rvars, lvars>>

\* A `go iter.next.fetch()` goroutine enters once.Do first and starts the
\* function.
GoFetchBegin(h) ==
    /\ bg[h] > 0
    /\ OnceFree(handles[h].once)
    /\ bg' = [bg EXCEPT ![h] = @ - 1]
    /\ handles' = [handles EXCEPT ![h].once = "running"]
    /\ runner' = [runner EXCEPT ![h] = "bg"]
    /\ fetchCount' = [fetchCount EXCEPT ![h] = @ + 1]
    /\ UNCHANGED <<iter, spc, sdest, ret, wrote, observed, pages,
                   delivered>>
    /\ UNCHANGED <<dvars, evars, rvars, lvars>>

\* The once function ends: `n.next = n.qry.session.executeQuery(&n.qry)`
\* has returned o.it.  A goroutine that ran it returns from fetch().
FetchEnd(h, o) ==
    /\ handles[h].once = "running"
    /\ handles' = WithHandle([handles EXCEPT ![h].once = "done", ![h].next = o.it], o)
    /\ runner' = [runner EXCEPT ![h] = "none"]
    /\ pages' = IF o.it.err = NIL THEN Append(pages, o.it.rows) ELSE pages
    /\ observed' = IF runner[h] = "bg"
                     THEN [observed EXCEPT ![h] = @ \cup {o.it}]
                     ELSE observed
    /\ UNCHANGED <<iter, spc, sdest, ret, wrote, bg, fetchCount,
                   delivered>>
    /\ UNCHANGED <<dvars, evars, rvars, lvars>>

\* A goroutine that found the once taken returns from fetch() when the
\* function has ended.
GoFetchReturn(h) ==
    /\ bg[h] > 0
    /\ handles[h].once = "done"
    /\ bg' = [bg EXCEPT ![h] = @ - 1]
    /\ observed' = [observed EXCEPT ![h] = @ \cup {handles[h].next}]
    /\ UNCHANGED <<iter, handles, spc, sdest, ret, wrote, runner,
                   fetchCount, pages, delivered>>
    /\ UNCHANGED <<dvars, evars, rvars, lvars>>

\* fetch() returns to the Scan: `*iter = *iter.next.fetch()` and
\* `return iter.Scan(dest...)`.
ScanFetchReturn ==
    /\ spc = "force"
    /\ handles[iter.next].once = "done"
    /\ observed' = [observed EXCEPT ![iter.next] = @ \cup {handles[iter.next].next}]
    /\ ApplyScan(ScanStep(SwapIn(iter, handles[iter.next].next), handles, sdest), sdest)
    /\ UNCHANGED <<handles, runner, fetchCount, pages>>
    /\ UNCHANGED <<dvars, evars, rvars, lvars>>

----------------------------------------------------------------------------
(* Event debouncer *)

eventBufferSize == 1000

MaxArrivals == 3   \* debounce calls made after the initial state

\* The initial state is a new debouncer, or one that has taken this many
\* debounce calls in one quiet window (none of its timers has expired).
Prefills == {0, eventBufferSize - 1}

\* The frames i..j, in arrival order.
Frames(i, j) == [k \in 1..(j - i + 1) |-> i + k - 1]

\* `if len(e.events) < eventBufferSize`
HasRoomOffByOne(evs) == Len(evs) < eventBufferSize - 1
HasRoom(evs) == Len(evs) < eventBufferSize

\* `e.events = append(e.events, frame)`
BufferAddFront(evs, f) == <<f>> \o evs
BufferAdd(evs, f) == Append(evs, f)

\* What flush hands to `go e.callback(...)`.
FlushedAfterReset(evs) == <<>>
Flushed(evs) == evs

\* timer.C after e.timer.Reset.
AfterReset(c, stale) == IF stale THEN c ELSE FALSE

\* s with its i-th element removed.
Remove(seq, i) == SubSeq(seq, 1, i - 1) \o SubSeq(seq, i + 1, Len(seq))

EInit0 ==
    /\ events = <<>>
    /\ timerArmed = FALSE
    /\ timerC = FALSE
    /\ staleTimerC = FALSE
    /\ mu = "free"
    /\ fpc = "select"
    /\ stpc = "idle"
    /\ goCallbacks = <<>>
    /\ calls = <<>>
    /\ prefilled = 0
    /\ arrived = 0
    /\ logged = <<>>
    /\ expired = FALSE
    /\ burstStart = 1
    /\ burstIdle = TRUE
    /\ handed = <<>>

\* newEventDebouncer (the timer stopped, the flusher started), followed by
\* `pre` debounce calls within one quiet window.
EInit ==
    \E pre \in Prefills : \E stale \in BOOLEAN :
        /\ events = Frames(1, pre)
        /\ timerArmed = (pre > 0)
        /\ timerC = FALSE
        /\ staleTimerC = stale
        /\ mu = "free"
        /\ fpc = "select"
        /\ stpc = "idle"
        /\ goCallbacks = <<>>
        /\ calls = <<>>
        /\ prefilled = pre
        /\ arrived = pre
        /\ logged = <<>>
        /\ expired = FALSE
        /\ burstStart = 1
        /\ burstIdle = TRUE
        /\ handed = <<>>

\* Nothing is buffered and the flusher waits in its select with nothing to
\* receive.
Idle == events = <<>> /\ fpc = "select" /\ ~timerC /\ mu = "free"

\* debounce: Lock, timer.Reset, and the append or the logged drop.
debounce ==
    /\ mu = "free"
    /\ arrived < prefilled + MaxArrivals
    /\ mu' = "debounce"
    /\ arrived' = arrived + 1
    /\ timerArmed' = TRUE
    /\ timerC' = AfterReset(timerC, staleTimerC)
    /\ IF HasRoom(events)
         THEN events' = BufferAdd(events, arrived + 1) /\ UNCHANGED logged
         ELSE logged' = Append(logged, arrived + 1) /\ UNCHANGED events
    /\ IF arrived > 0 /\ expired
         THEN /\ burstStart' = arrived + 1
              /\ burstIdle' = Idle
         ELSE UNCHANGED <<burstStart, burstIdle>>
    /\ expired' = FALSE
    /\ UNCHANGED <<staleTimerC, fpc, stpc, goCallbacks, calls, prefilled,
                   handed>>
    /\ UNCHANGED <<dvars, ivars, rvars, lvars>>

\* debounce: Unlock.
debounceUnlock ==
    /\ mu = "debounce"
    /\ mu' = "free"
    /\ UNCHANGED <<events, timerArmed, timerC, staleTimerC, fpc, stpc,
                   goCallbacks, calls, prefilled, arrived,
                   logged, expired, burstStart, burstIdle, handed>>
    /\ UNCHANGED <<dvars, ivars, rvars, lvars>>

\* The quiet window ends: the runtime sends on e.timer.C.
timerExpire ==
    /\ timerArmed
    /\ timerArmed' = FALSE
    /\ timerC' = TRUE
    /\ expired' = TRUE
    /\ UNCHANGED <<events, staleTimerC, mu, fpc, stpc, goCallbacks, calls,
                   prefilled, arrived,
                   logged, burstStart, burstIdle, handed>>
    /\ UNCHANGED <<dvars, ivars, rvars, lvars>>

\* flusher: `case <-e.timer.C`
flusherTimer ==
    /\ fpc = "select"
    /\ timerC
    /\ timerC' = FALSE
    /\ fpc' = "timer"
    /\ UNCHANGED <<events, timerArmed, staleTimerC, mu, stpc, goCallbacks,
                   calls, prefilled, arrived,
                   logged, expired, burstStart, burstIdle, handed>>
    /\ UNCHANGED <<dvars, ivars, rvars, lvars>>

\* flusher: e.mu.Lock()
flusherLock ==
    /\ fpc = "timer"
    /\ mu = "free"
    /\ mu' = "flusher"
    /\ fpc' = "locked"
    /\ UNCHANGED <<events, timerArmed, timerC, staleTimerC, stpc, goCallbacks,
                   calls, prefilled, arrived,
                   logged, expired, burstStart, burstIdle, handed>>
    /\ UNCHANGED <<dvars, ivars, rvars, lvars>>

\* flusher: e.flush() and e.mu.Unlock()
flush ==
    /\ fpc = "locked"
    /\ IF Len(events) = 0
         THEN UNCHANGED <<events, goCallbacks, handed>>
         ELSE /\ goCallbacks' = Append(goCallbacks, Flushed(events))
              /\ handed' = Append(handed, Flushed(events))
              /\ events' = <<>>
    /\ mu' = "free"
    /\ fpc' = "select"
    /\ UNCHANGED <<timerArmed, timerC, staleTimerC, stpc, calls, prefilled,
                   arrived, logged, expired, burstStart, burstIdle>>
    /\ UNCHANGED <<dvars, ivars, rvars, lvars>>

\* One of the `go e.callback(batch)` goroutines starts to run.
callback(i) ==
    /\ i \in 1..Len(goCallbacks)
    /\ calls' = Append(calls, goCallbacks[i])
    /\ goCallbacks' = Remove(goCallbacks, i)
    /\ UNCHANGED <<events, timerArmed, timerC, staleTimerC, mu, fpc, stpc,
                   prefilled, arrived,
                   logged, expired, burstStart, burstIdle, handed>>
    /\ UNCHANGED <<dvars, ivars, rvars, lvars>>

\* stop: `e.quit <- struct{}{}` meets the flusher's `case <-e.quit`, and
\* the flusher returns.
stopSync ==
    /\ stpc = "idle"
    /\ fpc = "select"
    /\ stpc' = "sent"
    /\ fpc' = "returned"
    /\ UNCHANGED <<events, timerArmed, timerC, staleTimerC, mu, goCallbacks,
                   calls, prefilled, arrived,
                   logged, expired, burstStart, burstIdle, handed>>
    /\ UNCHANGED <<dvars, ivars, rvars, lvars>>

\* stop: close(e.quit), and stop returns.
stopClose ==
    /\ stpc = "sent"
    /\ stpc' = "returned"
    /\ UNCHANGED <<events, timerArmed, timerC, staleTimerC, mu, fpc,
                   goCallbacks, calls, prefilled, arrived,
                   logged, expired, burstStart, burstIdle, handed>>
    /\ UNCHANGED <<dvars, ivars, rvars, lvars>>

----------------------------------------------------------------------------
(* Event reconciler *)

MaxNodeFrames == 2     \* frames of one debounced node-event batch
MaxSchemaFrames == 2   \* frames of one debounced schema-event batch
MaxConnects == 1       \* handleNodeConnected calls of the pool

\* The IPs that events name, and the host ID of the HostInfo of each.
IPs == {"10.0.0.1", "10.0.0.2"}
HostID(ip) == IF ip = "10.0.0.1" THEN "host-1" ELSE "host-2"

Keyspaces == {"ks1", "ks2"}

\* *topologyChangeEventFrame and *statusChangeEventFrame, as far as
\* handleNodeEvent reads them.
TopologyFrame == [kind |-> "topology", host |-> "", change |-> ""]
StatusFrames == [kind : {"status"}, host : IPs, change : {"UP", "DOWN"}]
NodeFrames == {TopologyFrame} \cup StatusFrames

\* *schemaChangeKeyspace, ...Table, ...Aggregate, ...Function, ...Type.
SchemaKinds == {"keyspace", "table", "aggregate", "function", "type"}
SchemaFrames ==
    [kind : {"keyspace"}, keyspace : Keyspaces, change : {"CREATED", "DROPPED"}]
    \cup [kind : SchemaKinds \ {"keyspace"}, keyspace : Keyspaces,
          change : {"UPDATED"}]

\* The sequences over S of at most n elements.
SeqsUpTo(S, n) == UNION { [1..k -> S] : k \in 0..n }

\* One call a handler makes on a collaborator.
Call(by, o, host, arg) == [by |-> by, op |-> o, host |-> host, arg |-> arg]

\* A map with no keys.
EmptyMap == [h \in {} |-> ""]

\* `event.change = f.change` after the lookup-or-insert of lines 158-162:
\* the entry of the frame's host holds the change of this frame.
StatusUpdateKeepFirst(m, f) ==
    [h \in DOMAIN m \cup {f.host} |-> IF h \in DOMAIN m THEN m[h] ELSE f.change]
StatusUpdate(m, f) ==
    [h \in DOMAIN m \cup {f.host} |-> IF h = f.host THEN f.change ELSE m[h]]

RECURSIVE StatusEvents(_, _)
\* sEvents after the first loop has read the first k frames.
StatusEvents(fs, k) ==
    IF k = 0 THEN EmptyMap
    ELSE IF fs[k].kind = "status"
           THEN StatusUpdate(StatusEvents(fs, k - 1), fs[k])
           ELSE StatusEvents(fs, k - 1)

\* topologyEventReceived after the first loop.
TopologySeenNever(fs) == FALSE
TopologySeen(fs) == \E i \in 1..Len(fs) : fs[i].kind = "topology"

\* `if topologyEventReceived && !s.cfg.Events.DisableTopologyEvents`
RefreshWantedAlways(seen, disabled) == seen
RefreshWanted(seen, disabled) == seen /\ ~disabled

\* handleNodeUp: the calls it makes, in order.
NodeUpCallsRetry(ip, known, filt) ==
    IF ~known THEN << Call("handleNodeUp", "debounceRingRefresh", "", ""),
                      Call("handleNodeUp", "pool.addHost", ip, HostID(ip)) >>
    ELSE IF filt THEN <<>>
    ELSE << Call("startPoolFill", "pool.addHost", ip, HostID(ip)),
            Call("startPoolFill", "policy.AddHost", ip, "") >>
NodeUpCallsMarksUp(ip, known, filt) ==
    IF ~known THEN << Call("handleNodeUp", "debounceRingRefresh", "", "") >>
    ELSE << Call("handleNodeUp", "host.setState", ip, "UP") >>
         \o (IF filt THEN <<>>
             ELSE << Call("startPoolFill", "pool.addHost", ip, HostID(ip)),
                     Call("startPoolFill", "policy.AddHost", ip, "") >>)
NodeUpCalls(ip, known, filt) ==
    IF ~known THEN << Call("handleNodeUp", "debounceRingRefresh", "", "") >>
    ELSE IF filt THEN <<>>
    ELSE << Call("startPoolFill", "pool.addHost", ip, HostID(ip)),
            Call("startPoolFill", "policy.AddHost", ip, "") >>

\* handleNodeDown: the calls it makes, in order.
NodeDownCallsFilterFirst(ip, known, filt) ==
    IF ~known \/ filt THEN <<>>
    ELSE << Call("handleNodeDown", "host.setState", ip, "DOWN"),
            Call("handleNodeDown", "policy.HostDown", ip, ""),
            Call("handleNodeDown", "pool.removeHost", ip, HostID(ip)) >>
NodeDownCalls(ip, known, filt) ==
    IF ~known THEN <<>>
    ELSE IF filt THEN << Call("handleNodeDown", "host.setState", ip, "DOWN") >>
    ELSE << Call("handleNodeDown", "host.setState", ip, "DOWN"),
            Call("handleNodeDown", "policy.HostDown", ip, ""),
            Call("handleNodeDown", "pool.removeHost", ip, HostID(ip)) >>

\* handleNodeConnected: the calls it makes, in order.
NodeConnectedCallsNoFilter(ip, filt) ==
    << Call("handleNodeConnected", "host.setState", ip, "UP"),
       Call("handleNodeConnected", "policy.HostUp", ip, "") >>
NodeConnectedCalls(ip, filt) ==
    IF filt THEN << Call("handleNodeConnected", "host.setState", ip, "UP") >>
    ELSE << Call("handleNodeConnected", "host.setState", ip, "UP"),
            Call("handleNodeConnected", "policy.HostUp", ip, "") >>

\* The dispatch of one sEvents entry (lines 178-187): the call of the
\* handler, and the calls the handler makes.
DispatchCalls(ip, change, known, filt, disabled) ==
    IF disabled THEN <<>>
    ELSE IF change = "UP"
      THEN << Call("handleNodeEvent", "handleNodeUp", ip, "") >>
           \o NodeUpCalls(ip, known, filt)
    ELSE IF change = "DOWN"
      THEN << Call("handleNodeEvent", "handleNodeDown", ip, "") >>
           \o NodeDownCalls(ip, known, filt)
    ELSE <<>>

\* The order of the two passes that follow the first loop: the ring refresh
\* (lines 167-169), then the dispatch loop (171-188).
PassOrderStatusFirst == <<"dispatch", "refresh">>
PassOrder == <<"refresh", "dispatch">>

\* The pass after pass p.
NextPass(p) == IF p = PassOrder[1] THEN PassOrder[2] ELSE "done"

\* What a sequence of calls does to the host states, the pool and the ring
\* refresher.
RECURSIVE StatesAfter(_, _)
StatesAfter(hs, cs) ==
    IF cs = <<>> THEN hs
    ELSE StatesAfter(IF Head(cs).op = "host.setState"
                       THEN [hs EXCEPT ![Head(cs).host] = Head(cs).arg]
                       ELSE hs, Tail(cs))

RECURSIVE PoolAfter(_, _)
PoolAfter(pl, cs) ==
    IF cs = <<>> THEN pl
    ELSE PoolAfter(IF Head(cs).op = "pool.addHost" THEN pl \cup {Head(cs).arg}
                   ELSE IF Head(cs).op = "pool.removeHost" THEN pl \ {Head(cs).arg}
                   ELSE pl, Tail(cs))

RefreshCalled(cs) == \E i \in 1..Len(cs) : cs[i].op = "debounceRingRefresh"

\* The calls cs are made.
Make(cs) ==
    /\ effects' = effects \o cs
    /\ hostState' = StatesAfter(hostState, cs)
    /\ pool' = PoolAfter(pool, cs)
    /\ refreshPending' = (refreshPending \/ RefreshCalled(cs))

RInit0 ==
    /\ DisableTopologyEvents = FALSE
    /\ DisableNodeStatusEvents = FALSE
    /\ ring = {}
    /\ filtered = {}
    /\ hostState = [ip \in IPs |-> "UP"]
    /\ pool = {}
    /\ refreshPending = FALSE
    /\ schemaCache = {}
    /\ rpc = "new"
    /\ frames = <<>>
    /\ topologyEventReceived = FALSE
    /\ sEvents = EmptyMap
    /\ sTodo = {}
    /\ fidx = 0
    /\ connects = 0
    /\ effects = <<>>

\* A session with some configuration, ring and host filter (the filter
\* excludes no host, or the second one); the hosts are up, or the first one
\* is down, and the pool holds the hosts of the ring that are up and that
\* the filter lets through.
RNodeInit ==
    /\ DisableTopologyEvents \in BOOLEAN
    /\ DisableNodeStatusEvents \in BOOLEAN
    /\ ring \in SUBSET IPs
    /\ filtered \in {{}, {"10.0.0.2"}}
    /\ hostState \in { [ip \in IPs |-> "UP"],
                       [ip \in IPs |-> IF ip = "10.0.0.1" THEN "DOWN" ELSE "UP"] }
    /\ pool = { HostID(ip) : ip \in { h \in ring \ filtered : hostState[h] = "UP" } }
    /\ refreshPending = FALSE
    /\ schemaCache = {}
    /\ rpc = "new"
    /\ frames = <<>>
    /\ topologyEventReceived = FALSE
    /\ sEvents = EmptyMap
    /\ sTodo = {}
    /\ fidx = 0
    /\ connects = 0
    /\ effects = <<>>

\* handleNodeEvent(fs): the first loop (lines 149-165).
handleNodeEvent(fs) ==
    /\ rpc = "new"
    /\ frames' = fs
    /\ topologyEventReceived' = TopologySeen(fs)
    /\ sEvents' = StatusEvents(fs, Len(fs))
    /\ sTodo' = DOMAIN sEvents'
    /\ rpc' = PassOrder[1]
    /\ UNCHANGED <<DisableTopologyEvents, DisableNodeStatusEvents, ring,
                   filtered, hostState, pool, refreshPending, schemaCache,
                   fidx, connects, effects>>
    /\ UNCHANGED <<dvars, ivars, evars, lvars>>

\* handleNodeEvent: lines 167-169.
nodeEventRefresh ==
    /\ rpc = "refresh"
    /\ IF RefreshWanted(topologyEventReceived, DisableTopologyEvents)
         THEN Make(<< Call("handleNodeEvent", "debounceRingRefresh", "", "") >>)
         ELSE Make(<<>>)
    /\ rpc' = NextPass("refresh")
    /\ UNCHANGED <<DisableTopologyEvents, DisableNodeStatusEvents, ring,
                   filtered, schemaCache, frames, topologyEventReceived,
                   sEvents, sTodo, fidx, connects>>
    /\ UNCHANGED <<dvars, ivars, evars, lvars>>

\* handleNodeEvent: one iteration of `for _, f := range sEvents`, the
\* handler it calls included.  Go ranges over a map in any order.
nodeEventDispatch(h) ==
    /\ rpc = "dispatch"
    /\ h \in sTodo
    /\ Make(DispatchCalls(h, sEvents[h], h \in ring, h \in filtered,
                          DisableNodeStatusEvents))
    /\ sTodo' = sTodo \ {h}
    /\ UNCHANGED <<DisableTopologyEvents, DisableNodeStatusEvents, ring,
                   filtered, schemaCache, rpc, frames, topologyEventReceived,
                   sEvents, fidx, connects>>
    /\ UNCHANGED <<dvars, ivars, evars, lvars>>

\* handleNodeEvent: the range loop is over.
nodeEventDispatched ==
    /\ rpc = "dispatch"
    /\ sTodo = {}
    /\ rpc' = NextPass("dispatch")
    /\ UNCHANGED <<DisableTopologyEvents, DisableNodeStatusEvents, ring,
                   filtered, hostState, pool, refreshPending, schemaCache,
                   frames, topologyEventReceived, sEvents, sTodo, fidx,
                   connects, effects>>
    /\ UNCHANGED <<dvars, ivars, evars, lvars>>

\* The refresh that debounceRingRefresh asked for takes place, at some later
\* time: the ring learns the hosts in `new`.
ringRefreshed(new) ==
    /\ refreshPending
    /\ new \subseteq IPs \ ring
    /\ ring' = ring \cup new
    /\ refreshPending' = FALSE
    /\ UNCHANGED <<DisableTopologyEvents, DisableNodeStatusEvents, filtered,
                   hostState, pool, schemaCache, rpc, frames,
                   topologyEventReceived, sEvents, sTodo, fidx, connects,
                   effects>>
    /\ UNCHANGED <<dvars, ivars, evars, lvars>>

\* handleNodeConnected(host), called by the pool.
handleNodeConnected(ip) ==
    /\ connects < MaxConnects
    /\ connects' = connects + 1
    /\ Make(NodeConnectedCalls(ip, ip \in filtered))
    /\ UNCHANGED <<DisableTopologyEvents, DisableNodeStatusEvents, ring,
                   filtered, schemaCache, rpc, frames, topologyEventReceived,
                   sEvents, sTodo, fidx>>
    /\ UNCHANGED <<dvars, ivars, evars, lvars>>

\* handleSchemaEvent: the frame types whose case calls clearSchema
\* (lines 112-122).
ClearsSchemaKeyspaceOnly(kind) == kind = "keyspace"
ClearsSchema(kind) ==
    kind \in {"keyspace", "table", "aggregate", "function", "type"}

\* handleSchemaEvent: the frame types whose case calls handleKeyspaceChange.
HandlesKeyspaceChangeAlways(kind) == TRUE
HandlesKeyspaceChange(kind) == kind = "keyspace"

\* The outcomes of s.control.awaitSchemaAgreement(); the handler drops its
\* return value.
AgreementOutcomes == {"agreed", "error"}

\* A session whose schema cache holds some keyspaces.
RSchemaInit ==
    /\ DisableTopologyEvents = FALSE
    /\ DisableNodeStatusEvents = FALSE
    /\ ring = {}
    /\ filtered = {}
    /\ hostState = [ip \in IPs |-> "UP"]
    /\ pool = {}
    /\ refreshPending = FALSE
    /\ schemaCache \in SUBSET Keyspaces
    /\ rpc = "new"
    /\ frames = <<>>
    /\ topologyEventReceived = FALSE
    /\ sEvents = EmptyMap
    /\ sTodo = {}
    /\ fidx = 0
    /\ connects = 0
    /\ effects = <<>>

\* handleSchemaEvent(fs) is called.
handleSchemaEvent(fs) ==
    /\ rpc = "new"
    /\ frames' = fs
    /\ fidx' = 0
    /\ rpc' = "schema"
    /\ UNCHANGED <<DisableTopologyEvents, DisableNodeStatusEvents, ring,
                   filtered, hostState, pool, refreshPending, schemaCache,
                   topologyEventReceived, sEvents, sTodo, connects, effects>>
    /\ UNCHANGED <<dvars, ivars, evars, lvars>>

\* handleSchemaEvent: one iteration of the loop, up to its end or up to the
\* call of s.control.awaitSchemaAgreement() in handleKeyspaceChange.  In the
\* calls on the schema cache and the policy, `host` is the keyspace and `arg`
\* the change.
schemaFrame ==
    /\ rpc = "schema"
    /\ fidx < Len(frames)
    /\ LET f == frames[fidx + 1]
           cleared == IF ClearsSchema(f.kind)
                        THEN << Call("handleSchemaEvent", "clearSchema",
                                     f.keyspace, "") >>
                        ELSE <<>>
       IN /\ schemaCache' = IF ClearsSchema(f.kind)
                              THEN schemaCache \ {f.keyspace} ELSE schemaCache
          /\ IF HandlesKeyspaceChange(f.kind)
               THEN /\ effects' = effects \o cleared \o
                         << Call("handleKeyspaceChange", "awaitSchemaAgreement",
                                 "", "") >>
                    /\ rpc' = "await"
                    /\ fidx' = fidx
               ELSE /\ effects' = effects \o cleared
                    /\ rpc' = "schema"
                    /\ fidx' = fidx + 1
    /\ UNCHANGED <<DisableTopologyEvents, DisableNodeStatusEvents, ring,
                   filtered, hostState, pool, refreshPending, frames,
                   topologyEventReceived, sEvents, sTodo, connects>>
    /\ UNCHANGED <<dvars, ivars, evars, lvars>>

\* handleKeyspaceChange: awaitSchemaAgreement returns, with outcome o, and
\* the policy is notified.
schemaAgreed(o) ==
    /\ rpc = "await"
    /\ LET f == frames[fidx + 1]
       IN effects' = effects \o
            << Call("handleKeyspaceChange", "awaitSchemaAgreement returns", "", o),
               Call("handleKeyspaceChange", "policy.KeyspaceChanged",
                    f.keyspace, f.change) >>
    /\ rpc' = "schema"
    /\ fidx' = fidx + 1
    /\ UNCHANGED <<DisableTopologyEvents, DisableNodeStatusEvents, ring,
                   filtered, hostState, pool, refreshPending, schemaCache,
                   frames, topologyEventReceived, sEvents, sTodo, connects>>
    /\ UNCHANGED <<dvars, ivars, evars, lvars>>

\* handleSchemaEvent: the loop is over.
schemaReturn ==
    /\ rpc = "schema"
    /\ fidx = Len(frames)
    /\ rpc' = "done"
    /\ UNCHANGED <<DisableTopologyEvents, DisableNodeStatusEvents, ring,
                   filtered, hostState, pool, refreshPending, schemaCache,
                   frames, topologyEventReceived, sEvents, sTodo, fidx,
                   connects, effects>>
    /\ UNCHANGED <<dvars, ivars, evars, lvars>>

----------------------------------------------------------------------------
(* Session defaults and their lock *)

NumProcs == 3   \* goroutines that call the Session, one call each

Procs == 1..NumProcs

\* The default fields of a Session, in the order Session.Query reads them.
ReadOrder == <<"cons", "pageSize", "trace", "prefetch">>

\* NewSession: cons Quorum, prefetch 0.25, the rest zero values.
NewSession ==
    [cons |-> "Quorum", pageSize |-> "0", prefetch |-> "0.25", trace |-> "nil"]

\* The setter calls made: each sets its field to a value other than the
\* one NewSession gave it.
Setters ==
    { [name |-> "SetConsistency", field |-> "cons", arg |-> "One"],
      [name |-> "SetPageSize", field |-> "pageSize", arg |-> "100"],
      [name |-> "SetPrefetch", field |-> "prefetch", arg |-> "0.5"],
      [name |-> "SetTrace", field |-> "trace", arg |-> "tracer"] }

NoCall == [name |-> "none", field |-> "", arg |-> ""]
QueryCall == [name |-> "Query", field |-> "", arg |-> ""]
NewBatchCall == [name |-> "NewBatch", field |-> "", arg |-> ""]

\* A Query none of whose fields has been filled in.
NoQuery == [f \in {} |-> ""]

\* s.mu.Lock() can return: no writer and no reader holds the lock.
CanLockIgnoringReaders(m) == m.writer = 0
CanLock(m) == m.writer = 0 /\ m.readers = {}

\* s.mu.RLock() can return: no writer holds the lock.
CanRLockAlways(m) == TRUE
CanRLock(m) == m.writer = 0

\* `cons: s.cons`, ...: the field of the Query gets the Session's value.
CopiedFieldStale(se, f) == NewSession[f]
CopiedField(se, f) == se[f]

LInit0 ==
    /\ sess = NewSession
    /\ smu = [writer |-> 0, readers |-> {}]
    /\ lpc = [p \in Procs |-> "idle"]
    /\ lop = [p \in Procs |-> NoCall]
    /\ qry = [p \in Procs |-> NoQuery]
    /\ batchRt = [p \in Procs |-> "none"]

\* Process p calls a setter.
Setter(p, c) ==
    /\ lpc[p] = "idle"
    /\ lop' = [lop EXCEPT ![p] = c]
    /\ lpc' = [lpc EXCEPT ![p] = "lock"]
    /\ UNCHANGED <<sess, smu, qry, batchRt>>
    /\ UNCHANGED <<dvars, ivars, evars, rvars>>

\* The setter's s.mu.Lock() returns.
SessionLock(p) ==
    /\ lpc[p] = "lock"
    /\ CanLock(smu)
    /\ smu' = [smu EXCEPT !.writer = p]
    /\ lpc' = [lpc EXCEPT ![p] = "write"]
    /\ UNCHANGED <<sess, lop, qry, batchRt>>
    /\ UNCHANGED <<dvars, ivars, evars, rvars>>

\* The setter's assignment: s.cons = cons, s.pageSize = n, ...
SetField(p) ==
    /\ lpc[p] = "write"
    /\ sess' = [sess EXCEPT ![lop[p].field] = lop[p].arg]
    /\ lpc' = [lpc EXCEPT ![p] = "unlock"]
    /\ UNCHANGED <<smu, lop, qry, batchRt>>
    /\ UNCHANGED <<dvars, ivars, evars, rvars>>

\* The setter's s.mu.Unlock(), and its return.
SessionUnlock(p) ==
    /\ lpc[p] = "unlock"
    /\ smu' = [smu EXCEPT !.writer = 0]
    /\ lpc' = [lpc EXCEPT ![p] = "done"]
    /\ UNCHANGED <<sess, lop, qry, batchRt>>
    /\ UNCHANGED <<dvars, ivars, evars, rvars>>

\* Process p calls Session.Query.
Query(p) ==
    /\ lpc[p] = "idle"
    /\ lop' = [lop EXCEPT ![p] = QueryCall]
    /\ lpc' = [lpc EXCEPT ![p] = "rlock"]
    /\ qry' = [qry EXCEPT ![p] = NoQuery]
    /\ UNCHANGED <<sess, smu, batchRt>>
    /\ UNCHANGED <<dvars, ivars, evars, rvars>>

\* Query's s.mu.RLock() returns.
SessionRLock(p) ==
    /\ lpc[p] = "rlock"
    /\ CanRLock(smu)
    /\ smu' = [smu EXCEPT !.readers = @ \cup {p}]
    /\ lpc' = [lpc EXCEPT ![p] = "read"]
    /\ UNCHANGED <<sess, lop, qry, batchRt>>
    /\ UNCHANGED <<dvars, ivars, evars, rvars>>

\* Query reads the next default field into the Query it builds.
ReadField(p) ==
    /\ lpc[p] = "read"
    /\ LET n == Cardinality(DOMAIN qry[p])
           f == ReadOrder[n + 1]
       IN /\ qry' = [qry EXCEPT ![p] =
                       [g \in DOMAIN qry[p] \cup {f} |->
                           IF g = f THEN CopiedField(sess, f) ELSE qry[p][g]]]
          /\ lpc' = [lpc EXCEPT ![p] =
                       IF n + 1 = Len(ReadOrder) THEN "runlock" ELSE "read"]
    /\ UNCHANGED <<sess, smu, lop, batchRt>>
    /\ UNCHANGED <<dvars, ivars, evars, rvars>>

\* Query's s.mu.RUnlock(), and `return qry`.
SessionRUnlock(p) ==
    /\ lpc[p] = "runlock"
    /\ smu' = [smu EXCEPT !.readers = @ \ {p}]
    /\ lpc' = [lpc EXCEPT ![p] = "done"]
    /\ UNCHANGED <<sess, lop, qry, batchRt>>
    /\ UNCHANGED <<dvars, ivars, evars, rvars>>

\* Session.NewBatch: reads s.cfg.RetryPolicy, which no setter writes, and
\* takes no lock.
NewBatch(p) ==
    /\ lpc[p] = "idle"
    /\ lop' = [lop EXCEPT ![p] = NewBatchCall]
    /\ batchRt' = [batchRt EXCEPT ![p] = "s.cfg.RetryPolicy"]
    /\ lpc' = [lpc EXCEPT ![p] = "done"]
    /\ UNCHANGED <<sess, smu, qry>>
    /\ UNCHANGED <<dvars, ivars, evars, rvars>>

----------------------------------------------------------------------------
(* Specifications *)

DispatchInit == DInit /\ IInit0 /\ EInit0 /\ RInit0 /\ LInit0

DispatchNext ==
    \/ \E n \in RetryCounts : executeQueryCall(n)
    \/ executeQueryPickNil
    \/ \E e \in ExecErrors \cup {NIL} : executeQueryAttempt(e)
    \/ executeQueryReturn
    \/ \E n \in RetryCounts, len \in BatchSizes : ExecuteBatchCall(n, len)
    \/ ExecuteBatchPickNil
    \/ \E e \in ExecErrors \cup {NIL} : ExecuteBatchAttempt(e)
    \/ ExecuteBatchReturn

DispatchSpec == DispatchInit /\ [][DispatchNext]_vars

IterInit == DInit /\ IInit /\ EInit0 /\ RInit0 /\ LInit0

IterNext ==
    \/ \E d \in Dests : Scan(d)
    \/ Close
    \/ ScanFetchBegin
    \/ \E h \in HandleIds : GoFetchBegin(h)
    \/ \E h \in HandleIds : \E o \in FetchOutcomes(h) : FetchEnd(h, o)
    \/ \E h \in HandleIds : GoFetchReturn(h)
    \/ ScanFetchReturn

IterSpec == IterInit /\ [][IterNext]_vars

DebounceInit == DInit /\ IInit0 /\ EInit /\ RInit0 /\ LInit0

DebounceNext ==
    \/ debounce
    \/ debounceUnlock
    \/ timerExpire
    \/ flusherTimer
    \/ flusherLock
    \/ flush
    \/ \E i \in 1..MaxArrivals : callback(i)
    \/ stopSync
    \/ stopClose

\* The runtime runs every goroutine that can run, and a running timer
\* expires; debounce and stop are calls the environment may never make.
DebounceFairness ==
    /\ WF_vars(debounceUnlock)
    /\ WF_vars(timerExpire)
    /\ WF_vars(flusherTimer)
    /\ WF_vars(flusherLock)
    /\ WF_vars(flush)
    /\ WF_vars(\E i \in 1..MaxArrivals : callback(i))

DebounceSpec == DebounceInit /\ [][DebounceNext]_vars /\ DebounceFairness

NodeEventInit == DInit /\ IInit0 /\ EInit0 /\ RNodeInit /\ LInit0

NodeEventNext ==
    \/ \E fs \in SeqsUpTo(NodeFrames, MaxNodeFrames) : handleNodeEvent(fs)
    \/ nodeEventRefresh
    \/ \E h \in IPs : nodeEventDispatch(h)
    \/ nodeEventDispatched
    \/ \E new \in SUBSET IPs : ringRefreshed(new)
    \/ \E ip \in IPs : handleNodeConnected(ip)

NodeEventSpec == NodeEventInit /\ [][NodeEventNext]_vars

SchemaEventInit == DInit /\ IInit0 /\ EInit0 /\ RSchemaInit /\ LInit0

SchemaEventNext ==
    \/ \E fs \in SeqsUpTo(SchemaFrames, MaxSchemaFrames) : handleSchemaEvent(fs)
    \/ schemaFrame
    \/ \E o \in AgreementOutcomes : schemaAgreed(o)
    \/ schemaReturn

SchemaEventSpec == SchemaEventInit /\ [][SchemaEventNext]_vars

SessionInit == DInit /\ IInit0 /\ EInit0 /\ RInit0 /\ LInit0

SessionNext ==
    \E p \in Procs :
        \/ \E c \in Setters : Setter(p, c)
        \/ SessionLock(p)
        \/ SetField(p)
        \/ SessionUnlock(p)
        \/ Query(p)
        \/ SessionRLock(p)
        \/ ReadField(p)
        \/ SessionRUnlock(p)
        \/ NewBatch(p)

SessionSpec == SessionInit /\ [][SessionNext]_vars

\* Some loop iteration of the running call is enabled.
DispatchAttemptOrPick ==
    \/ executeQueryPickNil
    \/ \E e \in ExecErrors \cup {NIL} : executeQueryAttempt(e)
    \/ ExecuteBatchPickNil
    \/ \E e \in ExecErrors \cup {NIL} : ExecuteBatchAttempt(e)

----------------------------------------------------------------------------
(* Claims about the retry dispatcher, checked under DispatchSpec *)

\* What the running entry point returns: itr.err, or err.
Returned == IF op = "query" THEN itr ELSE err

\* The call went into the retry loop (it is not a rejected batch).
InLoop == op = "query" \/ (op = "batch" /\ nEntries <= 65536)

AllFailed == \A i \in 1..Len(errs) : errs[i] # NIL

\* C1: with N >= 0 retries and every picked connection's execution failing,
\* executeQuery and ExecuteBatch never make more than N+1 picks, and they
\* return after exactly N+1 picks and N+1 attempts with the error of the
\* last attempt.
C1_AllFailMakesNPlusOneAttempts ==
    (InLoop /\ numRetries >= 0 /\ nilPickAt = 0 /\ AllFailed) =>
        /\ picks = attempts /\ attempts = Len(errs)
        /\ picks <= numRetries + 1
        /\ dpc = "loop" /\ picks = numRetries + 1 => ~ENABLED DispatchAttemptOrPick
        /\ dpc = "done" =>
             /\ picks = numRetries + 1
             /\ attempts = numRetries + 1
             /\ Returned = errs[numRetries + 1]

C1_Witness ==
    /\ dpc = "done" /\ InLoop /\ numRetries >= 2 /\ nilPickAt = 0 /\ AllFailed
    /\ picks = numRetries + 1
    /\ errs[1] # errs[Len(errs)]

\* C2: when attempt k is the first to succeed, the call ends at once with k
\* picks and k attempts, k <= N+1, and returns no error; no attempt follows
\* a success.
C2_SuccessOnAttemptKStops ==
    (InLoop /\ numRetries >= 0 /\ nilPickAt = 0
        /\ \E i \in 1..Len(errs) : errs[i] = NIL) =>
        /\ dpc = "done"
        /\ errs[Len(errs)] = NIL
        /\ \A i \in 1..(Len(errs) - 1) : errs[i] # NIL
        /\ picks = Len(errs) /\ attempts = Len(errs)
        /\ Len(errs) <= numRetries + 1
        /\ Returned = NIL

C2_Witness ==
    /\ dpc = "done" /\ InLoop /\ nilPickAt = 0
    /\ Len(errs) >= 2 /\ errs[Len(errs)] = NIL
    /\ Len(errs) < numRetries + 1

\* C3: ExecuteBatch on more than 65536 entries returns ErrTooManyStmts with
\* no pick and no attempt, whatever the retry policy; a batch of at most
\* 65536 entries is not rejected: it enters the retry loop and never returns
\* ErrTooManyStmts.
C3_OversizedBatchRejected ==
    op = "batch" =>
        /\ nEntries > 65536 =>
             /\ dpc = "done" /\ err = ErrTooManyStmts
             /\ picks = 0 /\ attempts = 0
        /\ nEntries <= 65536 =>
             /\ err # ErrTooManyStmts
             /\ dpc = "done" /\ numRetries >= 0 => picks >= 1

C3_Witness ==
    /\ op = "batch" /\ nEntries = 65537 /\ numRetries >= 1
    /\ dpc = "done" /\ err = ErrTooManyStmts /\ picks = 0

\* C4: when a pick returns no connection, on the first attempt or after
\* failed ones, the call ends at once with ErrUnavailable: that pick is the
\* last one and no attempt follows it, even if retries remain.
C4_NilPickEndsCall ==
    nilPickAt # 0 =>
        /\ dpc = "done"
        /\ Returned = ErrUnavailable
        /\ picks = nilPickAt
        /\ attempts = nilPickAt - 1
        /\ AllFailed

C4_Witness ==
    /\ nilPickAt >= 2 /\ dpc = "done" /\ Returned = ErrUnavailable
    /\ count < numRetries

----------------------------------------------------------------------------
(* Claims about the paging iterator, checked under IterSpec *)

RECURSIVE Flatten(_)
\* The rows of a sequence of pages, in order.
Flatten(ps) == IF ps = <<>> THEN <<>> ELSE Head(ps) \o Flatten(Tail(ps))

IsPrefix(a, b) == Len(a) <= Len(b) /\ a = SubSeq(b, 1, Len(a))

\* Active: no error, and rows left in the buffered page.
Active(it) == it.err = NIL /\ it.pos < Len(it.rows)

\* C5: for every continuation handle, whatever the interleaving of the
\* prefetch goroutine and the forcing fetch of Scan, the continuation query
\* is executed at most once, exactly once when the fetch is done, and every
\* caller of fetch got the same iterator, the one stored in the handle.
C5_ContinuationFetchedOnce ==
    \A h \in HandleIds :
        /\ fetchCount[h] <= 1
        /\ handles[h].once \in {"running", "done"} => fetchCount[h] = 1
        /\ handles[h].once \in {"absent", "new"} => fetchCount[h] = 0
        /\ observed[h] # {} => handles[h].once = "done"
        /\ observed[h] \subseteq {handles[h].next}

\* The Scan is in fetch(), waiting for the goroutine that runs the function.
C5_Witness ==
    /\ spc = "force"
    /\ runner[iter.next] = "bg"
    /\ handles[iter.next].once = "running"

\* C6: the cursor of the Iter is always within 0..len(rows).
C6_PosWithinRows == 0 <= iter.pos /\ iter.pos <= Len(iter.rows)

\* A second page has been swapped in and read to its end.
C6_Witness ==
    /\ Len(pages) >= 2 /\ iter.rows = pages[2] /\ iter.err = NIL
    /\ iter.pos = Len(iter.rows) /\ iter.pos > 0
    /\ Len(pages[1]) > Len(pages[2])

\* C7: as long as no decode, count or fetch error occurred, the rows the
\* Scans returned are the rows of the pages in page order and, within a
\* page, in buffered order, each once; a Scan that returns true stored that
\* row; when Scan returns false the rows of all pages were delivered and
\* Close returns nil.
C7_RowsInPageOrder ==
    iter.err = NIL =>
        /\ IsPrefix(delivered, Flatten(pages))
        /\ ret = <<"Scan", TRUE>> =>
             /\ delivered # <<>>
             /\ Len(wrote) = Len(Columns)
             /\ \A i \in 1..Len(wrote) :
                    wrote[i] \in {<<"skipped", 0>>,
                                  <<"value", delivered[Len(delivered)][i]>>}
        /\ ret = <<"Scan", FALSE>> =>
             /\ iter.next = 0 /\ iter.pos = Len(iter.rows)
             /\ delivered = Flatten(pages)
        /\ ret \in {<<"Close", e>> : e \in {NIL, ErrProtocol, ErrUnavailable,
                                            ErrCountMismatch, ErrUnmarshal}} =>
             ret = <<"Close", NIL>>

\* All rows of two pages were delivered and Scan then returned false.
C7_Witness ==
    /\ iter.err = NIL /\ ret = <<"Scan", FALSE>>
    /\ Len(pages) = 2 /\ Len(pages[1]) = 2 /\ Len(pages[2]) >= 1
    /\ delivered = Flatten(pages)

\* The error of Scan(d) on the Active iterator it: "" when it succeeds.
ScanError(it, d) ==
    IF Len(d) # Len(it.columns) THEN ErrCountMismatch
    ELSE IF \E i \in 1..Len(d) : d[i] # "nilslot" /\ it.rows[it.pos + 1][i] < 0
           THEN ErrUnmarshal
    ELSE ""

\* C8: a Scan on an Active iterator with a wrong number of destinations or
\* an undecodable column returns false, records that error, and leaves the
\* cursor, the rows and the rows delivered so far as they were.  The Active
\* iterator is the caller's, or the page the Scan has just swapped in.
C8_FailedScanKeepsRow ==
    [][ /\ \A d \in Dests :
              (Scan(d) /\ Active(iter) /\ ScanError(iter, d) # "") =>
                  /\ ret' = <<"Scan", FALSE>>
                  /\ iter' = [iter EXCEPT !.err = ScanError(iter, d)]
                  /\ delivered' = delivered
        /\ (/\ ScanFetchReturn
            /\ Active(handles[iter.next].next)
            /\ ScanError(handles[iter.next].next, sdest) # "") =>
                  /\ ret' = <<"Scan", FALSE>>
                  /\ iter' = [handles[iter.next].next EXCEPT
                                !.err = ScanError(handles[iter.next].next, sdest)]
                  /\ delivered' = delivered
      ]_vars

\* A decode failure after a delivered row: the cursor is on the bad row.
C8_Witness ==
    /\ iter.err = ErrUnmarshal /\ ret = <<"Scan", FALSE>>
    /\ iter.pos >= 1 /\ Len(delivered) >= 1
    /\ \E i \in 1..Len(Columns) : iter.rows[iter.pos + 1][i] < 0

\* C9: once the Iter has an error, no step changes the Iter; a Scan returns
\* false, stores nothing, and starts no fetch and no goroutine; a Close
\* returns that error.
C9_ErroredIsAbsorbing ==
    [][ iter.err # NIL =>
          /\ iter' = iter
          /\ delivered' = delivered
          /\ spc' = "idle"
          /\ \A d \in Dests : Scan(d) =>
                /\ ret' = <<"Scan", FALSE>> /\ wrote' = <<>>
                /\ UNCHANGED <<handles, bg, runner, fetchCount>>
          /\ Close => ret' = <<"Close", iter.err>>
      ]_vars

\* A Close after a Scan on an Iter whose row failed to decode.
C9_Witness ==
    /\ iter.err = ErrUnmarshal /\ ret = <<"Close", ErrUnmarshal>>
    /\ Len(delivered) >= 1

\* A `go iter.next.fetch()` has been issued for the handle h: the goroutine
\* has not entered once.Do yet, runs the once function, or has returned.
\* (While h is the continuation of the caller's Iter, only goroutines fill
\* observed[h].)
Scheduled(h) == bg[h] > 0 \/ runner[h] = "bg" \/ observed[h] # {}

\* What a Scan that returns without calling fetch() itself leaves alone: the
\* Scan is over and the once of every handle is as it was.
ScanDidNotWait == spc' = "idle" /\ handles' = handles /\ fetchCount' = fetchCount

\* C21, as stated: a Scan on an Active iterator that has a continuation and
\* whose cursor is below the continuation's threshold (nextIter.pos)
\* schedules the background fetch if it was not scheduled yet, without
\* waiting for it, so that an iterator that was scanned to the end of its
\* page has had the fetch of its continuation scheduled.  The code breaks it: it compares
\* the cursor with the threshold for equality.
C21_ScanBelowThresholdSchedules ==
    /\ []((iter.err = NIL /\ Exhausted(iter) /\ iter.pos > 0 /\ iter.next # 0) =>
             Scheduled(iter.next))
    /\ [][ /\ \A d \in Dests :
                (/\ Scan(d) /\ Active(iter) /\ iter.next # 0
                 /\ iter.pos < handles[iter.next].pos
                 /\ ~Scheduled(iter.next)) =>
                    /\ bg'[iter.next] = bg[iter.next] + 1
                    /\ ScanDidNotWait
           /\ (/\ ScanFetchReturn
               /\ Active(handles[iter.next].next)
               /\ handles[iter.next].next.next # 0
               /\ handles[iter.next].next.pos
                      < handles[handles[iter.next].next.next].pos
               /\ ~Scheduled(handles[iter.next].next.next)) =>
                    bg'[handles[iter.next].next.next]
                       = bg[handles[iter.next].next.next] + 1
          ]_vars

\* C21, amended: a Scan on an Active iterator that has a continuation
\* schedules the background fetch exactly when its cursor equals the
\* continuation's threshold; the fetch was not scheduled before, the Scan
\* does not wait for it and does not run it, and a Scan at any other cursor
\* schedules nothing.  So an iterator whose cursor is beyond a threshold
\* of 0 or more has had the fetch of its continuation scheduled.
C21_ScanAtThresholdSchedules ==
    /\ []((/\ iter.next # 0 /\ handles[iter.next].pos >= 0
            /\ iter.pos > handles[iter.next].pos) => Scheduled(iter.next))
    /\ [][ /\ \A d \in Dests :
                (Scan(d) /\ Active(iter) /\ iter.next # 0) =>
                    IF iter.pos = handles[iter.next].pos
                      THEN /\ ~Scheduled(iter.next)
                           /\ bg'[iter.next] = bg[iter.next] + 1
                           /\ ScanDidNotWait
                      ELSE bg' = bg
           /\ (/\ ScanFetchReturn
               /\ Active(handles[iter.next].next)
               /\ handles[iter.next].next.next # 0) =>
                    LET it == handles[iter.next].next
                    IN IF it.pos = handles[it.next].pos
                         THEN /\ ~Scheduled(it.next)
                              /\ bg'[it.next] = bg[it.next] + 1
                         ELSE bg' = bg
          ]_vars

\* The Scan of the second row of a page found the cursor at the threshold,
\* returned that row, and left a goroutine that has not entered once.Do.
C21_Witness ==
    /\ iter.next # 0 /\ ret = <<"Scan", TRUE>> /\ spc = "idle"
    /\ handles[iter.next].pos = 1 /\ iter.pos = 2
    /\ bg[iter.next] = 1 /\ handles[iter.next].once = "new"

----------------------------------------------------------------------------
(* Claims about the event debouncer, checked under DebounceSpec *)

\* The batches handed to `go e.callback`, running or not yet.
Batches == goCallbacks \o calls

\* The frames of the current burst: every arrival since burstStart came
\* before the timer armed by the arrival before it expired.
Burst == Frames(burstStart, arrived)

\* The last n elements of a sequence.
LastN(seq, n) == SubSeq(seq, Len(seq) - n + 1, Len(seq))

\* At most one batch holds frames of the current burst, and such a batch
\* holds all frames of the burst, in arrival order: the callback was given
\* the burst after its last arrival.
BurstInOneBatch ==
    LET mine == { i \in 1..Len(Batches) :
                    \E k \in 1..Len(Batches[i]) : Batches[i][k] >= burstStart }
    IN /\ Cardinality(mine) <= 1
       /\ \A i \in mine : /\ Len(Batches[i]) >= Len(Burst)
                          /\ LastN(Batches[i], Len(Burst)) = Burst

\* C10: a burst of at most 1000 frames, each arriving before the timer armed
\* by the arrival before it expires, gets one callback invocation, after the
\* last arrival of the burst and with all frames of the burst in arrival
\* order.  Stated for every burst of the debouncer; the code breaks it for a
\* burst whose first frame arrives while the flusher still has an earlier
\* expiry to handle.
C10_EveryBurstGetsOneCallback ==
    (arrived > 0 /\ Len(Burst) <= 1000) => BurstInOneBatch

\* The same for a burst whose first frame arrives at an idle debouncer (a new
\* one, or one whose earlier flushes are over): it never gets more than one
\* callback invocation, the invocation has all its frames in arrival order,
\* and unless the burst ends by a later arrival or stop is called, the
\* invocation comes.  This holds.
IdleBurstGetsOneCallback ==
    /\ []((arrived > 0 /\ burstIdle /\ Len(Burst) <= 1000) => BurstInOneBatch)
    /\ \A n \in { pre + k : pre \in Prefills, k \in 1..MaxArrivals } :
         (arrived = n /\ burstIdle /\ Len(Burst) <= 1000) ~>
            (\/ arrived > n
             \/ stpc # "idle"
             \/ \E i \in 1..Len(calls) : calls[i] = Burst)

\* A burst of exactly 1000 frames has been handed to the callback.
IdleBurstWitness ==
    /\ burstIdle /\ burstStart = 1 /\ arrived = 1000 /\ prefilled < arrived
    /\ calls = << Frames(1, 1000) >>
    /\ stpc = "idle"

\* C11: the buffer never holds more than 1000 frames; a debounce call that
\* finds 1000 buffered frames leaves the buffer as it is and logs exactly one
\* entry, for the arriving frame, and a call that finds fewer appends the
\* frame and logs nothing; so when 1001 frames arrived in one window, the one
\* drop logged is frame 1001 and what the callback gets (or the buffer still
\* holds) is the first 1000 frames, in one batch.
C11_BufferCappedDropsLogged ==
    /\ [](Len(events) <= 1000)
    /\ [][debounce =>
            IF Len(events) = 1000
              THEN /\ events' = events
                   /\ logged' = Append(logged, arrived + 1)
                   /\ goCallbacks' = goCallbacks /\ calls' = calls
              ELSE /\ events' = Append(events, arrived + 1)
                   /\ logged' = logged]_vars
    /\ []((burstStart = 1 /\ arrived = 1001) =>
            /\ logged = <<1001>>
            /\ Len(Batches) <= 1
            /\ (IF Batches = <<>> THEN events ELSE Batches[1]) = Frames(1, 1000)
            /\ Batches # <<>> => events = <<>>)

\* 1001 frames arrived in one window; the callback got the first 1000 and
\* the drop of frame 1001 was logged.
C11_Witness ==
    /\ burstStart = 1 /\ arrived = 1001 /\ prefilled < 1000
    /\ logged = <<1001>>
    /\ calls = << Frames(1, 1000) >>

\* C12: stop returns only after the flusher has received the stop signal and
\* is exiting, and after stop has returned no callback invocation occurs.
\* The code breaks the second part: a `go e.callback(batch)` goroutine that a
\* flush created before the stop can start to run after stop has returned.
C12_NoCallbackAfterStop ==
    /\ [](stpc = "returned" => fpc = "returned")
    /\ [][stpc = "returned" => calls' = calls]_vars

\* What does hold: once stop has sent its signal the flusher has exited, and
\* no flush follows: no batch is handed to a new callback goroutine and the
\* buffer is never emptied again.
StopEndsFlushing ==
    /\ [](stpc # "idle" => fpc = "returned")
    /\ [][stpc # "idle" =>
            /\ Len(goCallbacks') + Len(calls') = Len(goCallbacks) + Len(calls)
            /\ Len(events') >= Len(events)]_vars

\* A debounce call after stop has returned: the frame stays in the buffer.
StopEndsFlushingWitness ==
    /\ stpc = "returned" /\ events # <<>> /\ ~timerArmed /\ timerC
    /\ calls # <<>> /\ goCallbacks = <<>>

----------------------------------------------------------------------------
(* Claims about the event reconciler, checked under NodeEventSpec *)

\* The positions in effects of the calls of `o` made by `by`.
CallsAt(by, o) ==
    { i \in 1..Len(effects) : effects[i].by = by /\ effects[i].op = o }

\* The positions of the frames of that kind in the batch.
FramesAt(kind) == { i \in 1..Len(frames) : frames[i].kind = kind }

\* C13: while one node-event batch is handled, the topology pass calls the
\* ring refresh once if the batch holds at least one topology frame and
\* topology events are not disabled, and not at all otherwise; it has done
\* so when the pass is over, and never calls it a second time.
C13_OneRefreshPerBatch ==
    LET n == Cardinality(CallsAt("handleNodeEvent", "debounceRingRefresh"))
    IN /\ rpc \in {"new", "refresh"} => n = 0
       /\ rpc \in {"dispatch", "done"} =>
            n = IF FramesAt("topology") # {} /\ ~DisableTopologyEvents
                  THEN 1 ELSE 0

\* A batch of two topology frames was handled with one refresh.
C13_Witness ==
    /\ rpc = "done" /\ Cardinality(FramesAt("topology")) = 2
    /\ Cardinality(CallsAt("handleNodeEvent", "debounceRingRefresh")) = 1

\* The positions in effects of handleNodeEvent's calls of handler `o` for ip.
DispatchesAt(o, ip) ==
    { i \in CallsAt("handleNodeEvent", o) : effects[i].host = ip }

\* The positions of the status frames for ip in the batch.
StatusFramesAt(ip) ==
    { i \in FramesAt("status") : frames[i].host = ip }

\* The largest element of a non-empty set of numbers.
Last(S) == CHOOSE i \in S : \A j \in S : j <= i

\* C14: while one node-event batch is handled, a host IP gets at most one
\* dispatch (handleNodeUp or handleNodeDown), and none if the batch has no
\* status frame for it; the handler dispatched is the one for the change of
\* the last status frame for that IP; when the loop is over and status
\* events are enabled, every IP with a status frame got its dispatch.
C14_LastStatusWinsPerHost ==
    \A ip \in IPs :
        LET ups == DispatchesAt("handleNodeUp", ip)
            downs == DispatchesAt("handleNodeDown", ip)
            sf == StatusFramesAt(ip)
        IN /\ Cardinality(ups) + Cardinality(downs) <= 1
           /\ sf = {} => ups = {} /\ downs = {}
           /\ ups # {} => frames[Last(sf)].change = "UP"
           /\ downs # {} => frames[Last(sf)].change = "DOWN"
           /\ (rpc = "done" /\ sf # {} /\ ~DisableNodeStatusEvents) =>
                 Cardinality(ups) + Cardinality(downs) = 1

\* DOWN then UP for one host: one handleNodeUp, no handleNodeDown.
C14_Witness ==
    \E ip \in IPs :
        /\ rpc = "done" /\ Len(frames) = 2
        /\ frames[1] = [kind |-> "status", host |-> ip, change |-> "DOWN"]
        /\ frames[2] = [kind |-> "status", host |-> ip, change |-> "UP"]
        /\ Cardinality(DispatchesAt("handleNodeUp", ip)) = 1
        /\ DispatchesAt("handleNodeDown", ip) = {}

\* The positions in effects of handleNodeEvent's dispatches.
AllDispatchesAt ==
    CallsAt("handleNodeEvent", "handleNodeUp")
        \cup CallsAt("handleNodeEvent", "handleNodeDown")

AbandonedUpsAt ==
    { i \in CallsAt("handleNodeEvent", "handleNodeUp") :
        /\ i < Len(effects)
        /\ effects[i + 1] = Call("handleNodeUp", "debounceRingRefresh", "", "") }

\* C16: the dispatch of an UP event for an IP that is not in the ring calls
\* the ring refresh and nothing else: the pool, the host states and the
\* policy are left alone and the event leaves the dispatch loop; and
\* afterwards, also when the refresh has made the host known and also when
\* the batch had a topology frame, the handling of the batch never adds that
\* host to the pool or the policy and never dispatches the event again.
C16_UpForUnknownHostAbandoned ==
    /\ [][\A h \in IPs :
            (/\ nodeEventDispatch(h)
             /\ sEvents[h] = "UP" /\ h \notin ring
             /\ ~DisableNodeStatusEvents) =>
                /\ effects' = effects \o
                     << Call("handleNodeEvent", "handleNodeUp", h, ""),
                        Call("handleNodeUp", "debounceRingRefresh", "", "") >>
                /\ refreshPending'
                /\ pool' = pool /\ hostState' = hostState /\ ring' = ring
                /\ h \notin sTodo' /\ sEvents' = sEvents]_vars
    /\ [](\A i \in AbandonedUpsAt : \A j \in (i + 2)..Len(effects) :
            effects[j].host = effects[i].host =>
                effects[j].by = "handleNodeConnected")

\* A batch with a topology frame and an UP for an unknown host was handled;
\* the refresh has made the host known since; the host is not in the pool.
C16_Witness ==
    \E i \in AbandonedUpsAt :
        /\ rpc = "done" /\ FramesAt("topology") # {}
        /\ CallsAt("handleNodeEvent", "debounceRingRefresh") # {}
        /\ effects[i].host \in ring \ filtered
        /\ HostID(effects[i].host) \notin pool
        /\ ~refreshPending

\* C17: the dispatch of a DOWN event for a host of the ring first sets the
\* host's state to DOWN, filtered or not; for a filtered host it does
\* nothing else; otherwise it then notifies the policy of host-down and then
\* tells the pool to remove the host by its host ID.  For an IP that is not
\* in the ring it changes no host state and calls neither pool nor policy.
C17_DownMarksThenFiltersThenRemoves ==
    [][\A h \in IPs :
         (/\ nodeEventDispatch(h)
          /\ sEvents[h] = "DOWN"
          /\ ~DisableNodeStatusEvents) =>
            LET called == << Call("handleNodeEvent", "handleNodeDown", h, "") >>
                marked == << Call("handleNodeDown", "host.setState", h, "DOWN") >>
            IN IF h \notin ring
                 THEN /\ effects' = effects \o called
                      /\ hostState' = hostState /\ pool' = pool
               ELSE IF h \in filtered
                 THEN /\ effects' = effects \o called \o marked
                      /\ hostState' = [hostState EXCEPT ![h] = "DOWN"]
                      /\ pool' = pool
               ELSE /\ effects' = effects \o called \o marked \o
                        << Call("handleNodeDown", "policy.HostDown", h, ""),
                           Call("handleNodeDown", "pool.removeHost", h, HostID(h)) >>
                    /\ hostState' = [hostState EXCEPT ![h] = "DOWN"]
                    /\ pool' = pool \ {HostID(h)}]_vars

\* DOWN events for two hosts of the ring were handled, one of them filtered:
\* both are DOWN, and only the other one was reported and removed.
C17_Witness ==
    /\ rpc = "done" /\ ring = IPs /\ filtered = {"10.0.0.2"}
    /\ hostState = [ip \in IPs |-> "DOWN"]
    /\ Cardinality(CallsAt("handleNodeDown", "host.setState")) = 2
    /\ Cardinality(CallsAt("handleNodeDown", "policy.HostDown")) = 1
    /\ pool = {}
    /\ connects = 0

\* C18: handleNodeConnected sets the host's state to UP whether or not the
\* host is filtered, then notifies the policy of host-up iff the host is not
\* filtered, and leaves the pool as it is.
C18_ConnectedMarksUp ==
    [][\A ip \in IPs :
         handleNodeConnected(ip) =>
            /\ hostState' = [hostState EXCEPT ![ip] = "UP"]
            /\ pool' = pool
            /\ effects' = effects
                 \o << Call("handleNodeConnected", "host.setState", ip, "UP") >>
                 \o (IF ip \in filtered THEN <<>>
                     ELSE << Call("handleNodeConnected", "policy.HostUp", ip, "") >>)
      ]_vars

\* A filtered host that a DOWN event had marked DOWN was connected: it is UP
\* and the policy was not told.
C18_Witness ==
    \E ip \in filtered :
        /\ effects # <<>>
        /\ effects[Len(effects)] = Call("handleNodeConnected", "host.setState", ip, "UP")
        /\ \E i \in CallsAt("handleNodeDown", "host.setState") : effects[i].host = ip
        /\ hostState[ip] = "UP"
        /\ CallsAt("handleNodeConnected", "policy.HostUp") = {}

----------------------------------------------------------------------------
(* Claims about the schema events, checked under SchemaEventSpec *)

\* The <<keyspace, change>> of the calls of `o` in effects, in order.
SchemaCallsOf(o) ==
    LET sel == SelectSeq(effects, LAMBDA c : c.op = o)
    IN [i \in 1..Len(sel) |-> <<sel[i].host, sel[i].arg>>]

\* C19: while a batch of schema events is handled, every frame, of whatever
\* kind, invalidates the cached schema of its keyspace (one clearSchema call
\* per frame, in batch order, and the keyspace is out of the cache); the
\* policy is notified once per keyspace-changed frame, in batch order, with
\* that frame's keyspace and change, and each notification comes right after
\* the return of the wait for schema agreement that was started after that
\* frame's invalidation; the other frames cause no notification.
C19_SchemaInvalidateThenAgreeThenNotify ==
    LET handled == SubSeq(frames, 1, fidx)
        ksFrames == SelectSeq(handled, LAMBDA f : f.kind = "keyspace")
    IN /\ \A i \in 1..fidx : frames[i].keyspace \notin schemaCache
       /\ rpc # "await" =>
            SchemaCallsOf("clearSchema")
                = [i \in 1..fidx |-> <<frames[i].keyspace, "">>]
       /\ SchemaCallsOf("policy.KeyspaceChanged")
            = [i \in 1..Len(ksFrames) |->
                   <<ksFrames[i].keyspace, ksFrames[i].change>>]
       /\ \A j \in CallsAt("handleKeyspaceChange", "policy.KeyspaceChanged") :
            /\ j > 3
            /\ effects[j - 1].op = "awaitSchemaAgreement returns"
            /\ effects[j - 2].op = "awaitSchemaAgreement"
            /\ effects[j - 3] = Call("handleSchemaEvent", "clearSchema",
                                     effects[j].host, "")
       /\ rpc = "done" => fidx = Len(frames)

\* A table frame and then a DROPPED keyspace frame of another keyspace were
\* handled: two invalidations, one wait, one notification.
C19_Witness ==
    /\ rpc = "done" /\ Len(frames) = 2
    /\ frames[1].kind = "table" /\ frames[2].kind = "keyspace"
    /\ frames[1].keyspace # frames[2].keyspace
    /\ schemaCache = {}
    /\ Len(effects) = 5
    /\ effects[5] = Call("handleKeyspaceChange", "policy.KeyspaceChanged",
                         frames[2].keyspace, "DROPPED")

----------------------------------------------------------------------------
(* Claims about the Session defaults, checked under SessionSpec *)

\* C20: under every interleaving of setter calls and Query calls, a process
\* that is at the write of a default field holds the session lock
\* exclusively (no reader, no other writer), and a process that is at the
\* read of default fields holds it shared (no writer); the Query that
\* Session.Query returns has, for every default field, the value the Session
\* has at that moment, even when setters ran before and between other
\* readers; and no later step changes a Query that was returned.
C20_DefaultsUnderLock ==
    /\ [](\A p \in Procs :
            /\ lpc[p] \in {"write", "unlock"} =>
                 smu.writer = p /\ smu.readers = {}
            /\ lpc[p] \in {"read", "runlock"} =>
                 p \in smu.readers /\ smu.writer = 0)
    /\ [][\A p \in Procs :
            /\ SetField(p) => smu.writer = p /\ smu.readers = {}
            /\ ReadField(p) => p \in smu.readers /\ smu.writer = 0
            /\ SessionRUnlock(p) =>
                 /\ DOMAIN qry[p] = DOMAIN sess
                 /\ \A f \in DOMAIN sess : qry[p][f] = sess[f]
            /\ (lpc[p] = "done" /\ lop[p].name = "Query") => qry'[p] = qry[p]
         ]_vars

\* A Query was built after SetConsistency and before SetPageSize: it has the
\* new consistency and the old page size, and the Session has moved on.
C20_Witness ==
    \E p \in Procs :
        /\ lpc[p] = "done" /\ lop[p].name = "Query"
        /\ qry[p] = [NewSession EXCEPT !.cons = "One"]
        /\ sess = [NewSession EXCEPT !.cons = "One", !.pageSize = "100"]
        /\ \A q \in Procs : lpc[q] = "done"

----------------------------------------------------------------------------
(* The UP event for a known host, checked under NodeEventSpec *)

\* C22: the dispatch of an UP event for a host of the ring leaves every host
\* state as it was; for a filtered host it calls neither pool nor policy;
\* otherwise it asks the pool to add the host and then notifies the policy
\* of the host.  And whatever step makes a host state UP is a
\* handleNodeConnected for that host.
C22_UpKeepsStateAddsUnlessFiltered ==
    [][ /\ \A h \in IPs :
             (/\ nodeEventDispatch(h)
              /\ sEvents[h] = "UP" /\ h \in ring
              /\ ~DisableNodeStatusEvents) =>
                LET called == << Call("handleNodeEvent", "handleNodeUp", h, "") >>
                IN /\ hostState' = hostState
                   /\ IF h \in filtered
                        THEN /\ effects' = effects \o called
                             /\ pool' = pool
                        ELSE /\ effects' = effects \o called \o
                                  << Call("startPoolFill", "pool.addHost", h, HostID(h)),
                                     Call("startPoolFill", "policy.AddHost", h, "") >>
                             /\ pool' = pool \cup {HostID(h)}
        /\ \A ip \in IPs :
             (hostState[ip] # "UP" /\ hostState'[ip] = "UP") =>
                handleNodeConnected(ip)
      ]_vars

\* An UP event for a host of the ring that is down and not filtered was
\* handled: the pool and the policy have the host, which is still DOWN,
\* the pool not having connected yet.
C22_Witness ==
    \E ip \in ring \ filtered :
        /\ rpc = "done" /\ connects = 0
        /\ DispatchesAt("handleNodeUp", ip) # {}
        /\ \E i \in CallsAt("startPoolFill", "pool.addHost") :
              /\ effects[i].host = ip
              /\ i < Len(effects)
              /\ effects[i + 1] = Call("startPoolFill", "policy.AddHost", ip, "")
        /\ HostID(ip) \in pool
        /\ hostState[ip] = "DOWN"

----------------------------------------------------------------------------
(* The batches of the event debouncer, checked under DebounceSpec *)

\* The frames that debounce appended to the buffer, in arrival order: the
\* frames that arrived and were not dropped.
Accepted ==
    LET kept(f) == \A i \in 1..Len(logged) : logged[i] # f
    IN SelectSeq(Frames(1, arrived), kept)

\* The elements of a sequence.
Range(seq) == { seq[i] : i \in 1..Len(seq) }

\* C23: whatever the interleaving of debounce calls, timer expiries and the
\* flusher's steps, no batch given to the callback is empty, and a flush
\* that finds the buffer empty starts no callback; the batches in the order
\* of the flushes, followed by the buffer, are the accepted frames in
\* arrival order, so that no frame is in two batches or twice in one and
\* the order is kept within and across batches; and the batches the
\* callback goroutines were started with are those batches, each once.
C23_BatchesPartitionAccepted ==
    /\ [](/\ \A i \in 1..Len(handed) : handed[i] # <<>>
          /\ Flatten(handed) \o events = Accepted
          /\ Len(goCallbacks) + Len(calls) = Len(handed)
          /\ Range(goCallbacks) \cup Range(calls) = Range(handed))
    /\ [][(flush /\ events = <<>>) =>
             (handed' = handed /\ goCallbacks' = goCallbacks /\ calls' = calls)
         ]_vars

\* Two flushes have taken place, the first of a batch of several frames,
\* and a frame that arrived after them is in the buffer.
C23_Witness ==
    /\ Len(handed) = 2 /\ Len(handed[1]) >= 2
    /\ events # <<>>
    /\ stpc = "idle"

\* A flush found the buffer empty after a batch was handed over.
EmptyFlushReached == fpc = "locked" /\ events = <<>> /\ handed # <<>>

=============================================================================
